---- MODULE Spec2Model ----
(***************************************************************************)
(* A model of screenshot_app.py: one run started at main or at             *)
(* WebScreenshotTool.capture_screenshot, with the login dispatcher         *)
(* (auto_detect_login_type, openshift_login, generic_login) and the two    *)
(* capture routines (capture_full_page, capture_viewport_from_height) it   *)
(* calls.  The browser session and the file system are the environment:    *)
(* every driver call may raise, pages answer with any content, and the     *)
(* model records each request made of the session or the output file in    *)
(* `trace`.                                                                *)
(***************************************************************************)
EXTENDS Integers, Sequences, FiniteSets, TLC

VARIABLES
    pc,              \* position of the run in the code
    url,             \* capture_screenshot(url): <<host, path>>
    username,        \* capture_screenshot(username)
    password,        \* capture_screenshot(password)
    full_page,       \* capture_screenshot(full_page)
    start_height,    \* capture_screenshot(start_height)
    output_path,     \* capture_screenshot(output_path)
    driver,          \* the session: None, "open" or "closed"
    faults,          \* driver / file exceptions raised so far in this run
    trace,           \* requests made of the session and of the output file
    current_url,     \* driver.current_url
    page_source,     \* driver.page_source, as the set of its words
    dom,             \* selectors that resolve on the current page
    provider,        \* handler auto_detect_login_type dispatched to
    attempts,        \* provider profiles whose field lookup has begun
    username_input,  \* element located for the username, or None
    password_input,  \* element located for the password, or None
    login_button,    \* element located for the submit control, or None
    status,          \* status of the login attempt
    login_success,   \* value returned by auto_detect_login_type
    window,          \* the session's window size
    entry_size,      \* window size when capture_full_page was entered
    original_size,   \* capture_full_page: original_size
    total_width,     \* capture_full_page: total_width
    total_height,    \* capture_full_page: total_height
    fp_start,        \* capture_full_page: its local start_height
    screenshot,      \* bytes obtained from get_screenshot_as_png
    file,            \* the output file
    success,         \* value returned by the capture routine
    result,          \* value returned by capture_screenshot
    exit_code        \* exit status of the process started at main, -1 while it runs

vars == <<pc, url, username, password, full_page, start_height, output_path, driver, faults,
          trace, current_url, page_source, dom, provider, attempts,
          username_input, password_input, login_button, status, login_success,
          window, entry_size, original_size, total_width, total_height,
          fp_start, screenshot, file, success, result, exit_code>>

-----------------------------------------------------------------------------
(* Bounds of the model *)

\* driver / file exceptions injected in one run
MaxFaults == 1

-----------------------------------------------------------------------------
(* Python values *)

None == "None"

PyBool(b) == IF b THEN "True" ELSE "False"

\* truthiness of a str-or-None argument
Truthy(x) == x /= None /\ x /= ""

\* str.lower() on the words pages and URLs are made of
Lower(w) ==
    CASE w = "Grafana"   -> "grafana"
      [] w = "OpenShift" -> "openshift"
      [] w = "Invalid"   -> "invalid"
      [] w = "Logout"    -> "logout"
      [] w = "Login"     -> "login"
      [] w = "Console"   -> "console"
      [] w = "PNG"       -> "png"
      [] OTHER           -> w

LowerSet(S) == {Lower(w) : w \in S}

LowerSeq(s) == [i \in DOMAIN s |-> Lower(s[i])]

\* `needle in w` for one word of a URL
InWord(needle, w) ==
    \/ needle = w
    \/ w = "console-openshift" /\ needle \in {"console", "openshift"}

\* `needle in haystack` for a URL (a sequence of words)
InUrl(needle, u) == \E i \in DOMAIN u : InWord(needle, u[i])

\* f"{parsed_url.scheme}://{parsed_url.netloc}"
BaseUrl(u) == <<u[1]>>

\* f"{base_url.rstrip('/')}/login"
LoginUrl(base) == base \o <<"login">>

-----------------------------------------------------------------------------
(* Inputs and environment answers *)

Hosts == {"example", "Grafana", "console-openshift"}

Usernames == {None, "", "admin"}

Passwords == {None, "", "secret"}

StartHeights == {0, 300, 900}

\* <<stem, extension>>
OutputPaths == {<<"screenshot", "PNG">>, <<"screenshot", "jpg">>}

WindowSizes == {[width |-> 800, height |-> 600]}

DocWidths == {800, 7681}

DocHeights == {600, 1500, 20500}

\* words a login page may carry
LoginPageWords == {"Grafana", "OpenShift"}

\* elements a login page may carry, named by a selector that resolves to them
Elements == {"input[name='username']", "input[type='password']",
             "button[type='submit']", "a[href*='oauth']"}

\* words the page shown after a submission may carry
PostPageWords == {"Invalid", "Logout"}

\* URLs the session may be at after a submission
PostUrls(base) == {LoginUrl(base), base \o <<"Console">>,
                   base \o <<"oauth", "Login">>, base \o <<"home">>}

\* no bytes yet
NoImage == [width |-> 0, height |-> 0, encoding |-> None]

\* the output path before any write
NoFile == [state |-> "absent", data |-> NoImage]

\* whether a driver or file call raises
Raises == IF faults < MaxFaults THEN {FALSE, TRUE} ELSE {FALSE}

Ev(op, a, b) == [op |-> op, a |-> a, b |-> b]

Did(op) == \E i \in DOMAIN trace : trace[i].op = op

Count(op) == Cardinality({i \in DOMAIN trace : trace[i].op = op})

First(op) == CHOOSE i \in DOMAIN trace : trace[i].op = op /\
                 \A j \in DOMAIN trace : trace[j].op = op => i <= j

-----------------------------------------------------------------------------
\* a run starts at the command line (main) or at a call of capture_screenshot
Init ==
    /\ pc \in {"main", "cs_setup"}
    /\ url \in {<<h, "page">> : h \in Hosts}
    /\ username \in Usernames
    /\ password \in Passwords
    /\ full_page \in BOOLEAN
    /\ start_height \in StartHeights
    /\ output_path \in OutputPaths
    /\ driver = None
    /\ faults = 0
    /\ trace = <<>>
    /\ current_url = <<>>
    /\ page_source = {}
    /\ dom = {}
    /\ provider = None
    /\ attempts = {}
    /\ username_input = None
    /\ password_input = None
    /\ login_button = None
    /\ status = "Idle"
    /\ login_success = None
    /\ window \in WindowSizes
    /\ entry_size = [width |-> 0, height |-> 0]
    /\ original_size = [width |-> 0, height |-> 0]
    /\ total_width = 0
    /\ total_height = 0
    /\ fp_start = 0
    /\ screenshot = NoImage
    /\ file = NoFile
    /\ success = None
    /\ result = None
    /\ exit_code = -1

inputs == <<url, username, password, full_page, start_height, output_path>>

loginVars == <<current_url, page_source, dom, provider, attempts,
               username_input, password_input, login_button, status,
               login_success>>

elemVars == <<username_input, password_input, login_button>>

captureVars == <<window, entry_size, original_size, total_width, total_height,
                 fp_start, screenshot, file, success>>

-----------------------------------------------------------------------------
(* Locator chains *)

\* first selector of the chain that resolves, else None
FirstMatch(selectors, page) ==
    IF \E i \in DOMAIN selectors : selectors[i] \in page
    THEN selectors[CHOOSE i \in DOMAIN selectors :
                       /\ selectors[i] \in page
                       /\ \A j \in 1..(i - 1) : selectors[j] \notin page]
    ELSE None

OauthSelectors == {"a[href*='oauth']", "button[id*='oauth']", ".pf-c-login__main a"}

OsUsernameSelectors ==
    <<"input[name='inputUsername']", "input[id='inputUsername']",
      "input[placeholder*='user-zh']", "input[placeholder*='username']",
      "input[placeholder*='User']", "input[name='username']",
      "input[name='user']", "input[type='text']",
      ".pf-c-form-control[type='text']">>

OsPasswordSelectors ==
    <<"input[name='inputPassword']", "input[id='inputPassword']",
      "input[placeholder*='password-zh']", "input[placeholder*='password']",
      "input[placeholder*='Password']", "input[type='password']",
      "input[name='password']", ".pf-c-form-control[type='password']">>

OsButtonSelectors ==
    <<"button:contains('login-zh-hans')", "button:contains('login-zh-hant')",
      "button:contains('Login')", "button:contains('Log in')",
      "button[type='submit']", "input[type='submit']", "button[id*='login']",
      ".pf-c-button.pf-m-primary", "button.btn-primary">>

GlUsernameSelectors ==
    <<"input[name='username']", "input[name='user']", "input[name='email']",
      "input[type='text']", "input[type='email']",
      "input[placeholder*='user']", "input[placeholder*='email']">>

GlPasswordSelectors == <<"input[type='password']">>

\* "button[type='submit'], input[type='submit']" is one selector with two arms
GlSubmitSelectors == <<"button[type='submit']", "input[type='submit']">>

-----------------------------------------------------------------------------
(* The class and its dispatcher *)

\* attributes a WebScreenshotTool instance answers to
Methods == {"find_chromedriver", "setup_driver", "validate_url",
            "wait_for_page_load", "openshift_login", "auto_detect_login_type",
            "generic_login", "save_screenshot", "capture_full_page",
            "capture_viewport_from_height", "capture_screenshot"}

\* mutant of SelectHandler: an unrecognised page is handed to openshift_login
SelectHandlerDefaultOpenshift(src, u) ==
    IF \/ "grafana" \in src
       \/ InUrl("grafana", u)
    THEN "grafana_login"
    ELSE "openshift_login"

\* a variant of SelectHandler that looks for the OpenShift markers first
SelectHandlerOpenshiftFirst(src, u) ==
    IF \/ "openshift" \in src
       \/ InUrl("openshift", u)
    THEN "openshift_login"
    ELSE IF "grafana" \in src \/ InUrl("grafana", u)
         THEN "grafana_login"
         ELSE "generic_login"

\* the handler auto_detect_login_type calls for a lower-cased page and URL
SelectHandler(src, u) ==
    IF \/ "grafana" \in src
       \/ InUrl("grafana", u)
       \/ {"welcome", "to", "grafana"} \subseteq src
    THEN "grafana_login"
    ELSE IF \/ "openshift" \in src
            \/ {"red", "hat"} \subseteq src
            \/ InUrl("openshift", u)
            \/ InUrl("console-openshift", u)
         THEN "openshift_login"
         ELSE "generic_login"

\* openshift_login's judgement of the page reached after the submission
OsVerdict(u, src) ==
    LET lu == LowerSeq(u)
        success_indicators ==
            \/ InUrl("console", lu)
            \/ InUrl("dashboard", lu)
            \/ InUrl("overview", lu)
            \/ "projects" \in src
            \/ "logout" \in src
            \/ {"sign", "out"} \subseteq src
            \/ {"openshift", "console"} \subseteq src
        error_indicators == {"invalid", "error", "incorrect", "failed", "unauthorized"}
    IN  IF success_indicators \/ ~InUrl("login", lu)
        THEN "Success"
        ELSE IF error_indicators \cap src /= {}
             THEN "Failed"
             ELSE "Ambiguous"

\* mutant of OsReturn: login_success is left False in the success branch
OsReturnOnlyAmbiguous(verdict) == verdict = "Ambiguous"

\* mutant of OsReturn: an unclear page is reported as a failed login
OsReturnOnlySuccess(verdict) == verdict = "Success"

\* login_success as openshift_login returns it for a verdict
OsReturn(verdict) == verdict /= "Failed"

\* value generic_login returns once it has submitted
GlReturn == TRUE

\* a login routine returns val to capture_screenshot
LoginReturn(val, st) ==
    /\ login_success' = PyBool(val)
    /\ status' = st
    /\ pc' = "cs_after_login"

\* an exception reaches capture_screenshot's except clause
Abort ==
    /\ result' = "False"
    /\ pc' = "cs_finally"

-----------------------------------------------------------------------------
(* main *)

\* lines 180-189: with the scheme put in front where missing, urlparse finds a
\* scheme and a netloc exactly when the host part is not empty
validate_url(u) == Len(u) > 0 /\ u[1] /= ""

\* lines 890-892 and 853-888: main calls create_parser, whose line 883 reads
\* the name auth_group, bound nowhere in the module: NameError, caught neither
\* in create_parser nor in main nor around sys.exit(main()) at line 963, so
\* the interpreter prints the traceback and the process ends with status 1.
\* No later statement of main is reached.
MainCreateParser ==
    /\ pc = "main"
    /\ exit_code' = 1
    /\ pc' = "exited"
    /\ UNCHANGED <<inputs, driver, faults, trace, loginVars, captureVars, result>>

-----------------------------------------------------------------------------
(* capture_screenshot, up to the login *)

\* a variant of SetupDriver in which the run goes on without a session
SetupDriverGoesOn ==
    /\ pc = "cs_setup"
    /\ \E ok \in BOOLEAN : driver' = IF ok THEN "open" ELSE None
    /\ pc' = "cs_need_login"
    /\ UNCHANGED <<inputs, exit_code, faults, trace, loginVars, captureVars, result>>

SetupDriver ==
    /\ pc = "cs_setup"
    /\ \E ok \in BOOLEAN :
        IF ok
        THEN /\ driver' = "open"
             /\ pc' = "cs_need_login"
             /\ UNCHANGED result
        ELSE /\ driver' = None
             /\ Abort
    /\ UNCHANGED <<inputs, exit_code, faults, trace, loginVars, captureVars>>

\* a variant of CheckLogin that asks for the username only
CheckLoginUsernameOnly ==
    /\ pc = "cs_need_login"
    /\ pc' = IF Truthy(username) THEN "ad_get" ELSE "cs_get_url"
    /\ UNCHANGED <<inputs, exit_code, driver, faults, trace, loginVars, captureVars, result>>

CheckLogin ==
    /\ pc = "cs_need_login"
    /\ pc' = IF Truthy(username) /\ Truthy(password) THEN "ad_get" ELSE "cs_get_url"
    /\ UNCHANGED <<inputs, exit_code, driver, faults, trace, loginVars, captureVars, result>>

-----------------------------------------------------------------------------
(* auto_detect_login_type *)

AdGet ==
    /\ pc = "ad_get"
    /\ trace' = Append(trace, Ev("get_login", 0, 0))
    /\ \E r \in Raises :
        IF r
        THEN /\ faults' = faults + 1
             /\ LoginReturn(FALSE, "Error")
             /\ UNCHANGED <<current_url, page_source, dom>>
        ELSE /\ current_url' = LoginUrl(BaseUrl(url))
             /\ page_source' \in SUBSET LoginPageWords
             /\ dom' \in SUBSET Elements
             /\ pc' = "ad_detect"
             /\ UNCHANGED <<faults, status, login_success>>
    /\ UNCHANGED <<inputs, exit_code, driver, provider, attempts, elemVars, captureVars, result>>

AdDetect ==
    /\ pc = "ad_detect"
    /\ LET handler == SelectHandler(LowerSet(page_source), LowerSeq(current_url))
       IN  /\ provider' = handler
           /\ IF handler \notin Methods
              THEN LoginReturn(FALSE, "Error")
              ELSE /\ pc' = IF handler = "openshift_login" THEN "os_get" ELSE "gl_user"
                   /\ UNCHANGED <<status, login_success>>
    /\ UNCHANGED <<inputs, exit_code, driver, faults, trace, current_url, page_source, dom,
                   attempts, elemVars, captureVars, result>>

-----------------------------------------------------------------------------
(* openshift_login *)

OsGet ==
    /\ pc = "os_get"
    /\ trace' = Append(trace, Ev("get_login", 0, 0))
    /\ \E r \in Raises :
        IF r
        THEN /\ faults' = faults + 1
             /\ LoginReturn(FALSE, "Error")
             /\ UNCHANGED current_url
        ELSE /\ current_url' = LoginUrl(BaseUrl(url))
             /\ pc' = "os_oauth"
             /\ UNCHANGED <<faults, status, login_success>>
    /\ UNCHANGED <<inputs, exit_code, driver, page_source, dom, provider, attempts, elemVars,
                   captureVars, result>>

\* lines 220-228: a failing click is swallowed
OsOauth ==
    /\ pc = "os_oauth"
    /\ IF OauthSelectors \cap dom /= {}
       THEN /\ trace' = Append(trace, Ev("click_oauth", 0, 0))
            /\ \E r \in Raises : faults' = IF r THEN faults + 1 ELSE faults
       ELSE UNCHANGED <<trace, faults>>
    /\ pc' = "os_user"
    /\ UNCHANGED <<inputs, exit_code, driver, loginVars, captureVars, result>>

\* mutant of OsFindUsername: fields not found falls through to the generic profile
OsFindUsernameFallsThrough ==
    /\ pc = "os_user"
    /\ attempts' = attempts \cup {"openshift"}
    /\ trace' = Append(trace, Ev("find_username", "openshift", 0))
    /\ username_input' = FirstMatch(OsUsernameSelectors, dom)
    /\ pc' = IF username_input' = None THEN "gl_user" ELSE "os_pass"
    /\ status' = IF username_input' = None THEN "FieldsNotFound" ELSE "Pending"
    /\ UNCHANGED <<inputs, exit_code, driver, faults, current_url, page_source, dom, provider,
                   password_input, login_button, login_success, captureVars, result>>

OsFindUsername ==
    /\ pc = "os_user"
    /\ attempts' = attempts \cup {"openshift"}
    /\ trace' = Append(trace, Ev("find_username", "openshift", 0))
    /\ username_input' = FirstMatch(OsUsernameSelectors, dom)
    /\ IF username_input' = None
       THEN LoginReturn(FALSE, "FieldsNotFound")
       ELSE /\ pc' = "os_pass"
            /\ status' = "Pending"
            /\ UNCHANGED login_success
    /\ UNCHANGED <<inputs, exit_code, driver, faults, current_url, page_source, dom, provider,
                   password_input, login_button, captureVars, result>>

OsFindPassword ==
    /\ pc = "os_pass"
    /\ trace' = Append(trace, Ev("find_password", "openshift", 0))
    /\ password_input' = FirstMatch(OsPasswordSelectors, dom)
    /\ IF password_input' = None
       THEN LoginReturn(FALSE, "FieldsNotFound")
       ELSE /\ pc' = "os_fill_user"
            /\ UNCHANGED <<status, login_success>>
    /\ UNCHANGED <<inputs, exit_code, driver, faults, current_url, page_source, dom, provider,
                   attempts, username_input, login_button, captureVars, result>>

\* click, clear, send_keys on one field; the call that raises ends the routine
FillField(field, text, next) ==
    LET ops == <<Ev("click_field", field, 0), Ev("clear", field, 0),
                 Ev("send_keys", field, text)>>
    IN  \E r \in Raises :
            IF r
            THEN /\ \E n \in 1..Len(ops) : trace' = trace \o SubSeq(ops, 1, n)
                 /\ faults' = faults + 1
                 /\ LoginReturn(FALSE, "Error")
            ELSE /\ trace' = trace \o ops
                 /\ pc' = next
                 /\ UNCHANGED <<faults, status, login_success>>

OsFillUsername ==
    /\ pc = "os_fill_user"
    /\ FillField("username", username, "os_fill_pass")
    /\ UNCHANGED <<inputs, exit_code, driver, current_url, page_source, dom, provider,
                   attempts, elemVars, captureVars, result>>

OsFillPassword ==
    /\ pc = "os_fill_pass"
    /\ FillField("password", password, "os_button")
    /\ UNCHANGED <<inputs, exit_code, driver, current_url, page_source, dom, provider,
                   attempts, elemVars, captureVars, result>>

OsFindButton ==
    /\ pc = "os_button"
    /\ login_button' = FirstMatch(OsButtonSelectors, dom)
    /\ pc' = "os_submit"
    /\ UNCHANGED <<inputs, exit_code, driver, faults, trace, current_url, page_source, dom,
                   provider, attempts, username_input, password_input, status,
                   login_success, captureVars, result>>

\* the page the session shows once a submission went through
PageAfterSubmit ==
    /\ current_url' \in PostUrls(BaseUrl(url))
    /\ page_source' \in SUBSET PostPageWords

\* mutant of OsSubmit: the Enter key is sent whether or not a button was located
OsSubmitAlwaysEnter ==
    /\ pc = "os_submit"
    /\ trace' = Append(trace, Ev("send_enter", "password", 0))
    /\ \E r \in Raises :
        IF r
        THEN /\ faults' = faults + 1
             /\ LoginReturn(FALSE, "Error")
             /\ UNCHANGED <<current_url, page_source>>
        ELSE /\ PageAfterSubmit
             /\ status' = "Submitted"
             /\ pc' = "os_verify"
             /\ UNCHANGED <<faults, login_success>>
    /\ UNCHANGED <<inputs, exit_code, driver, dom, provider, attempts, elemVars, captureVars,
                   result>>

OsSubmit ==
    /\ pc = "os_submit"
    /\ trace' = Append(trace, IF login_button /= None
                              THEN Ev("click_submit", login_button, 0)
                              ELSE Ev("send_enter", "password", 0))
    /\ \E r \in Raises :
        IF r
        THEN /\ faults' = faults + 1
             /\ LoginReturn(FALSE, "Error")
             /\ UNCHANGED <<current_url, page_source>>
        ELSE /\ PageAfterSubmit
             /\ status' = "Submitted"
             /\ pc' = "os_verify"
             /\ UNCHANGED <<faults, login_success>>
    /\ UNCHANGED <<inputs, exit_code, driver, dom, provider, attempts, elemVars, captureVars,
                   result>>

\* mutant of OsVerify: no return after a Success, the generic profile is tried too
OsVerifyGoesOn ==
    /\ pc = "os_verify"
    /\ \E r \in Raises :
        IF r
        THEN /\ faults' = faults + 1
             /\ LoginReturn(FALSE, "Error")
        ELSE LET verdict == OsVerdict(current_url, LowerSet(page_source))
             IN  /\ IF verdict = "Success"
                    THEN /\ status' = verdict
                         /\ pc' = "gl_user"
                         /\ UNCHANGED login_success
                    ELSE LoginReturn(OsReturn(verdict), verdict)
                 /\ UNCHANGED faults
    /\ UNCHANGED <<inputs, exit_code, driver, trace, current_url, page_source, dom, provider,
                   attempts, elemVars, captureVars, result>>

OsVerify ==
    /\ pc = "os_verify"
    /\ \E r \in Raises :
        IF r
        THEN /\ faults' = faults + 1
             /\ LoginReturn(FALSE, "Error")
        ELSE LET verdict == OsVerdict(current_url, LowerSet(page_source))
             IN  /\ LoginReturn(OsReturn(verdict), verdict)
                 /\ UNCHANGED faults
    /\ UNCHANGED <<inputs, exit_code, driver, trace, current_url, page_source, dom, provider,
                   attempts, elemVars, captureVars, result>>

-----------------------------------------------------------------------------
(* generic_login *)

GlFindUsername ==
    /\ pc = "gl_user"
    /\ attempts' = attempts \cup {"generic"}
    /\ trace' = Append(trace, Ev("find_username", "generic", 0))
    /\ username_input' = FirstMatch(GlUsernameSelectors, dom)
    /\ status' = "Pending"
    /\ pc' = "gl_pass"
    /\ UNCHANGED <<inputs, exit_code, driver, faults, current_url, page_source, dom, provider,
                   password_input, login_button, login_success, captureVars, result>>

\* mutant of GlFindPassword: `or` for `and` in the test of line 438
GlFindPasswordEitherField ==
    /\ pc = "gl_pass"
    /\ trace' = Append(trace, Ev("find_password", "generic", 0))
    /\ password_input' = FirstMatch(GlPasswordSelectors, dom)
    /\ IF username_input /= None \/ password_input' /= None
       THEN /\ pc' = "gl_fill"
            /\ UNCHANGED <<status, login_success>>
       ELSE LoginReturn(FALSE, "FieldsNotFound")
    /\ UNCHANGED <<inputs, exit_code, driver, faults, current_url, page_source, dom, provider,
                   attempts, username_input, login_button, captureVars, result>>

GlFindPassword ==
    /\ pc = "gl_pass"
    /\ trace' = Append(trace, Ev("find_password", "generic", 0))
    /\ password_input' = FirstMatch(GlPasswordSelectors, dom)
    /\ IF username_input /= None /\ password_input' /= None
       THEN /\ pc' = "gl_fill"
            /\ UNCHANGED <<status, login_success>>
       ELSE LoginReturn(FALSE, "FieldsNotFound")
    /\ UNCHANGED <<inputs, exit_code, driver, faults, current_url, page_source, dom, provider,
                   attempts, username_input, login_button, captureVars, result>>

\* lines 439-442
GlFill ==
    /\ pc = "gl_fill"
    /\ LET ops == <<Ev("clear", "username", 0), Ev("send_keys", "username", username),
                    Ev("clear", "password", 0), Ev("send_keys", "password", password)>>
       IN  \E r \in Raises :
            IF r
            THEN /\ \E n \in 1..Len(ops) : trace' = trace \o SubSeq(ops, 1, n)
                 /\ faults' = faults + 1
                 /\ LoginReturn(FALSE, "Error")
            ELSE /\ trace' = trace \o ops
                 /\ pc' = "gl_submit"
                 /\ UNCHANGED <<faults, status, login_success>>
    /\ UNCHANGED <<inputs, exit_code, driver, current_url, page_source, dom, provider,
                   attempts, elemVars, captureVars, result>>

\* lines 445-452: a failed lookup or a failed click both fall back to Enter
GlSubmit ==
    /\ pc = "gl_submit"
    /\ login_button' = FirstMatch(GlSubmitSelectors, dom)
    /\ \E clickRaises \in Raises :
        /\ clickRaises => login_button' /= None
        /\ LET clicked == IF login_button' /= None
                          THEN <<Ev("click_submit", login_button', 0)>> ELSE <<>>
               enter == IF login_button' = None \/ clickRaises
                        THEN <<Ev("send_enter", "password", 0)>> ELSE <<>>
               n == IF clickRaises THEN faults + 1 ELSE faults
           IN  /\ trace' = trace \o clicked \o enter
               /\ \E enterRaises \in (IF enter /= <<>> /\ n < MaxFaults
                                      THEN {FALSE, TRUE} ELSE {FALSE}) :
                    IF enterRaises
                    THEN /\ faults' = n + 1
                         /\ LoginReturn(FALSE, "Error")
                         /\ UNCHANGED <<current_url, page_source>>
                    ELSE /\ faults' = n
                         /\ PageAfterSubmit
                         /\ LoginReturn(GlReturn, "Submitted")
    /\ UNCHANGED <<inputs, exit_code, driver, dom, provider, attempts, username_input,
                   password_input, captureVars, result>>

-----------------------------------------------------------------------------
(* capture_screenshot, from the navigation to the target *)

\* driver.get(url), lines 777, 797 and 801
LoadTarget(next) ==
    /\ trace' = Append(trace, Ev("get_target", 0, 0))
    /\ \E r \in Raises :
        IF r
        THEN /\ faults' = faults + 1
             /\ Abort
             /\ UNCHANGED <<current_url, page_source, dom>>
        ELSE /\ current_url' = url
             /\ page_source' = {}
             /\ dom' = {}
             /\ pc' = next
             /\ UNCHANGED <<faults, result>>

\* mutant of AfterLogin: a failed login ends the run
AfterLoginAbortsOnFailure ==
    /\ pc = "cs_after_login"
    /\ IF login_success = "False"
       THEN /\ Abort
            /\ UNCHANGED <<trace, faults, current_url, page_source, dom>>
       ELSE LoadTarget("cs_wait")
    /\ UNCHANGED <<inputs, exit_code, driver, provider, attempts, elemVars, status,
                   login_success, captureVars>>

\* mutant of AfterLogin: after a successful login the capture is taken where
\* the login left the session
AfterLoginStaysOnPage ==
    /\ pc = "cs_after_login"
    /\ IF login_success = "True"
       THEN /\ pc' = "cs_wait"
            /\ UNCHANGED <<trace, faults, current_url, page_source, dom, result>>
       ELSE LoadTarget("cs_wait")
    /\ UNCHANGED <<inputs, exit_code, driver, provider, attempts, elemVars, status,
                   login_success, captureVars>>

AfterLogin ==
    /\ pc = "cs_after_login"
    /\ LoadTarget("cs_wait")
    /\ UNCHANGED <<inputs, exit_code, driver, provider, attempts, elemVars, status,
                   login_success, captureVars>>

GetUrl ==
    /\ pc = "cs_get_url"
    /\ LoadTarget("cs_wait")
    /\ UNCHANGED <<inputs, exit_code, driver, provider, attempts, elemVars, status,
                   login_success, captureVars>>

\* a variant of WaitForPageLoad in which the timeout ends the run
WaitForPageLoadFatal ==
    /\ pc = "cs_wait"
    /\ \E ready \in BOOLEAN :
        /\ trace' = Append(trace, Ev("wait_for_page_load", PyBool(ready), 0))
        /\ IF ready
           THEN pc' = "cs_capture" /\ UNCHANGED result
           ELSE Abort
    /\ UNCHANGED <<inputs, exit_code, driver, faults, loginVars, captureVars>>

\* wait_for_page_load: a timeout is printed and swallowed
WaitForPageLoad ==
    /\ pc = "cs_wait"
    /\ \E ready \in BOOLEAN :
        trace' = Append(trace, Ev("wait_for_page_load", PyBool(ready), 0))
    /\ pc' = "cs_capture"
    /\ UNCHANGED <<inputs, exit_code, driver, faults, loginVars, captureVars, result>>

ChooseCapture ==
    /\ pc = "cs_capture"
    /\ pc' = IF full_page THEN "fp_size" ELSE "vp_scroll"
    /\ entry_size' = window
    /\ UNCHANGED <<inputs, exit_code, driver, faults, trace, loginVars, window, original_size,
                   total_width, total_height, fp_start, screenshot, file, success,
                   result>>

\* capture_screenshot returns what the capture routine returned
Return ==
    /\ pc = "cs_return"
    /\ result' = success
    /\ pc' = "cs_finally"
    /\ UNCHANGED <<inputs, exit_code, driver, faults, trace, loginVars, captureVars>>

\* mutant of Finally: the quit sits at the end of the try body, not in a finally
FinallyOnlyAfterReturn ==
    /\ pc = "cs_finally"
    /\ IF driver = "open" /\ success /= None
       THEN /\ trace' = Append(trace, Ev("quit", 0, 0))
            /\ driver' = "closed"
       ELSE UNCHANGED <<trace, driver>>
    /\ pc' = "done"
    /\ UNCHANGED <<inputs, exit_code, faults, loginVars, captureVars, result>>

\* the finally clause, lines 846-851
Finally ==
    /\ pc = "cs_finally"
    /\ IF driver = "open"
       THEN /\ trace' = Append(trace, Ev("quit", 0, 0))
            /\ driver' = "closed"
       ELSE UNCHANGED <<trace, driver>>
    /\ pc' = "done"
    /\ UNCHANGED <<inputs, exit_code, faults, loginVars, captureVars, result>>

-----------------------------------------------------------------------------
(* save_screenshot *)

\* a variant of Encoded that re-encodes whatever the path
EncodedAlwaysJpeg(data, path) == [data EXCEPT !.encoding = "jpeg"]

\* what save_screenshot puts at output_path for the bytes it is given
Encoded(data, path) ==
    IF Lower(path[Len(path)]) = "png"
    THEN data
    ELSE [data EXCEPT !.encoding = "jpeg"]

\* save_screenshot(screenshot, output_path): raise re-raises to the caller
Save(next) ==
    /\ trace' = Append(trace, Ev("write", 0, 0))
    /\ \E r \in Raises :
        IF r
        THEN /\ faults' = faults + 1
             /\ file' \in {file, [state |-> "partial", data |-> NoImage]}
             /\ success' = "False"
             /\ pc' = "cs_return"
        ELSE /\ file' = [state |-> "complete", data |-> Encoded(screenshot, output_path)]
             /\ pc' = next
             /\ UNCHANGED <<faults, success>>

\* mutant of TakeScreenshot: a failed request is swallowed and the routine goes on
TakeScreenshotSwallowed(next) ==
    /\ trace' = Append(trace, Ev("screenshot", 0, 0))
    /\ \E r \in Raises :
        /\ faults' = IF r THEN faults + 1 ELSE faults
        /\ screenshot' = IF r THEN screenshot
                         ELSE [width |-> window.width, height |-> window.height,
                               encoding |-> "png"]
        /\ pc' = next
        /\ UNCHANGED success

\* driver.get_screenshot_as_png() inside a capture routine
TakeScreenshot(next) ==
    /\ trace' = Append(trace, Ev("screenshot", 0, 0))
    /\ \E r \in Raises :
        IF r
        THEN /\ faults' = faults + 1
             /\ success' = "False"
             /\ pc' = "cs_return"
             /\ UNCHANGED screenshot
        ELSE /\ screenshot' = [width |-> window.width, height |-> window.height,
                               encoding |-> "png"]
             /\ pc' = next
             /\ UNCHANGED <<faults, success>>

-----------------------------------------------------------------------------
(* capture_full_page *)

max_width == 7680

max_height == 20000

\* a variant of EffectiveStart that keeps a start height beyond the page
EffectiveStartKeeps(start, measured) == start

\* lines 634-640: the start height the routine goes on with
EffectiveStart(start, measured) ==
    IF start > 0 /\ start >= measured THEN 0 ELSE start

\* a variant of RemainingHeight that leaves the measured height whole
RemainingHeightWhole(start, measured) == measured

\* lines 634-640: total_height after the start height is taken off
RemainingHeight(start, measured) ==
    IF start > 0 /\ start < measured THEN measured - start ELSE measured

\* a variant of Clamp that applies no cap
ClampNone(v, cap) == v

\* lines 647-650
Clamp(v, cap) == IF v > cap THEN cap ELSE v

\* a variant of AdjustedHeight that adds the window height whatever the start
AdjustedHeightAlways(th, start, orig) == th + orig.height

\* line 663
AdjustedHeight(th, start, orig) == th + (IF start > 0 THEN orig.height ELSE 0)

\* window.scrollTo target, lines 654-660 and 668-671
ScrollTarget(start) == IF start > 0 THEN start ELSE 0

\* the routine's except clause, lines 717-719
FpFail ==
    /\ success' = "False"
    /\ pc' = "cs_return"

FpGetWindowSize ==
    /\ pc = "fp_size"
    /\ trace' = Append(trace, Ev("get_window_size", 0, 0))
    /\ \E r \in Raises :
        IF r
        THEN /\ faults' = faults + 1
             /\ FpFail
             /\ UNCHANGED original_size
        ELSE /\ original_size' = window
             /\ pc' = "fp_dims"
             /\ UNCHANGED <<faults, success>>
    /\ UNCHANGED <<inputs, exit_code, driver, loginVars, window, entry_size, total_width,
                   total_height, fp_start, screenshot, file, result>>

\* a variant of FpDimensions in which a failing dimension query ends the routine
FpDimensionsAborts ==
    /\ pc = "fp_dims"
    /\ \E r \in Raises :
        IF r
        THEN /\ faults' = faults + 1
             /\ trace' = Append(trace, Ev("dimensions_failed", original_size.width,
                                          original_size.height))
             /\ FpFail
             /\ UNCHANGED <<fp_start, total_width, total_height>>
        ELSE \E w \in DocWidths, h \in DocHeights :
             /\ trace' = Append(trace, Ev("dimensions", w, h))
             /\ fp_start' = EffectiveStart(start_height, h)
             /\ total_width' = Clamp(w, max_width)
             /\ total_height' = Clamp(RemainingHeight(start_height, h), max_height)
             /\ pc' = "fp_scroll1"
             /\ UNCHANGED <<faults, success>>
    /\ UNCHANGED <<inputs, exit_code, driver, loginVars, window, entry_size, original_size,
                   screenshot, file, result>>

\* lines 606-650: measure (or fall back to the window), take the start
\* height off, clamp
FpDimensions ==
    /\ pc = "fp_dims"
    /\ \E r \in Raises :
        \E w \in (IF r THEN {original_size.width} ELSE DocWidths) :
        \E h \in (IF r THEN {original_size.height} ELSE DocHeights) :
            /\ faults' = IF r THEN faults + 1 ELSE faults
            /\ trace' = Append(trace, Ev(IF r THEN "dimensions_failed" ELSE "dimensions", w, h))
            /\ fp_start' = EffectiveStart(start_height, h)
            /\ total_width' = Clamp(w, max_width)
            /\ total_height' = Clamp(RemainingHeight(start_height, h), max_height)
    /\ pc' = "fp_scroll1"
    /\ UNCHANGED <<inputs, exit_code, driver, loginVars, window, entry_size, original_size,
                   screenshot, file, success, result>>

\* lines 652-674: the first call that raises ends the block, silently
FpScroll1 ==
    /\ pc = "fp_scroll1"
    /\ trace' = Append(trace, Ev("scroll", ScrollTarget(fp_start), 0))
    /\ \E r \in Raises :
        /\ faults' = IF r THEN faults + 1 ELSE faults
        /\ pc' = IF r THEN "fp_shot" ELSE "fp_resize"
    /\ UNCHANGED <<inputs, exit_code, driver, loginVars, captureVars, result>>

FpResize ==
    /\ pc = "fp_resize"
    /\ LET req == [width |-> total_width,
                   height |-> AdjustedHeight(total_height, fp_start, original_size)]
       IN  /\ trace' = Append(trace, Ev("set_window_size", req.width, req.height))
           /\ \E r \in Raises :
                IF r
                THEN /\ faults' = faults + 1
                     /\ UNCHANGED window
                     /\ pc' = "fp_shot"
                ELSE /\ window' = req
                     /\ pc' = "fp_scroll2"
                     /\ UNCHANGED faults
    /\ UNCHANGED <<inputs, exit_code, driver, loginVars, entry_size, original_size,
                   total_width, total_height, fp_start, screenshot, file, success,
                   result>>

FpScroll2 ==
    /\ pc = "fp_scroll2"
    /\ trace' = Append(trace, Ev("scroll", ScrollTarget(fp_start), 0))
    /\ \E r \in Raises : faults' = IF r THEN faults + 1 ELSE faults
    /\ pc' = "fp_shot"
    /\ UNCHANGED <<inputs, exit_code, driver, loginVars, captureVars, result>>

FpScreenshot ==
    /\ pc = "fp_shot"
    /\ TakeScreenshot(IF fp_start > 0 THEN "fp_crop" ELSE "fp_save")
    /\ UNCHANGED <<inputs, exit_code, driver, loginVars, window, entry_size, original_size,
                   total_width, total_height, fp_start, file, result>>

\* lines 690-692: the crop box (left, top, right, bottom) for a decoded image
CropBox(image) ==
    LET crop_top == 0
        crop_bottom == image.height
    IN  [left |-> 0, top |-> crop_top, right |-> image.width, bottom |-> crop_bottom]

\* lines 695-700: image.crop(box), saved as PNG
Cropped(image) ==
    LET box == CropBox(image)
    IN  [width |-> box.right - box.left, height |-> box.bottom - box.top,
         encoding |-> "pil-png"]

\* lines 680-705: crop and re-encode; a failure keeps the bytes as they were
FpCrop ==
    /\ pc = "fp_crop"
    /\ \E r \in Raises :
        /\ faults' = IF r THEN faults + 1 ELSE faults
        /\ screenshot' = IF r THEN screenshot ELSE Cropped(screenshot)
    /\ pc' = "fp_save"
    /\ UNCHANGED <<inputs, exit_code, driver, trace, loginVars, window, entry_size,
                   original_size, total_width, total_height, fp_start, file,
                   success, result>>

FpSave ==
    /\ pc = "fp_save"
    /\ Save("fp_restore")
    /\ UNCHANGED <<inputs, exit_code, driver, loginVars, window, entry_size, original_size,
                   total_width, total_height, fp_start, screenshot, result>>

\* lines 709-715
FpRestore ==
    /\ pc = "fp_restore"
    /\ trace' = Append(trace, Ev("set_window_size", original_size.width,
                                 original_size.height))
    /\ \E r \in Raises :
        /\ faults' = IF r THEN faults + 1 ELSE faults
        /\ window' = IF r THEN window ELSE original_size
    /\ success' = "True"
    /\ pc' = "cs_return"
    /\ UNCHANGED <<inputs, exit_code, driver, loginVars, entry_size, original_size,
                   total_width, total_height, fp_start, screenshot, file, result>>

-----------------------------------------------------------------------------
(* capture_viewport_from_height *)

VpScroll ==
    /\ pc = "vp_scroll"
    /\ IF start_height > 0
       THEN /\ trace' = Append(trace, Ev("scroll", start_height, 0))
            /\ \E r \in Raises :
                IF r
                THEN /\ faults' = faults + 1
                     /\ FpFail
                ELSE /\ pc' = "vp_shot"
                     /\ UNCHANGED <<faults, success>>
       ELSE /\ pc' = "vp_shot"
            /\ UNCHANGED <<trace, faults, success>>
    /\ UNCHANGED <<inputs, exit_code, driver, loginVars, window, entry_size, original_size,
                   total_width, total_height, fp_start, screenshot, file, result>>

VpScreenshot ==
    /\ pc = "vp_shot"
    /\ TakeScreenshot("vp_save")
    /\ UNCHANGED <<inputs, exit_code, driver, loginVars, window, entry_size, original_size,
                   total_width, total_height, fp_start, file, result>>

\* a variant of VpSave that returns without writing the file
VpSaveSkipped ==
    /\ pc = "vp_save"
    /\ pc' = "vp_done"
    /\ UNCHANGED <<inputs, exit_code, driver, faults, trace, loginVars, captureVars, result>>

VpSave ==
    /\ pc = "vp_save"
    /\ Save("vp_done")
    /\ UNCHANGED <<inputs, exit_code, driver, loginVars, window, entry_size, original_size,
                   total_width, total_height, fp_start, screenshot, result>>

VpReturn ==
    /\ pc = "vp_done"
    /\ success' = "True"
    /\ pc' = "cs_return"
    /\ UNCHANGED <<inputs, exit_code, driver, faults, trace, loginVars, window, entry_size,
                   original_size, total_width, total_height, fp_start, screenshot,
                   file, result>>

-----------------------------------------------------------------------------
Next ==
    \/ MainCreateParser
    \/ SetupDriver
    \/ CheckLogin
    \/ AdGet
    \/ AdDetect
    \/ OsGet
    \/ OsOauth
    \/ OsFindUsername
    \/ OsFindPassword
    \/ OsFillUsername
    \/ OsFillPassword
    \/ OsFindButton
    \/ OsSubmit
    \/ OsVerify
    \/ GlFindUsername
    \/ GlFindPassword
    \/ GlFill
    \/ GlSubmit
    \/ AfterLogin
    \/ GetUrl
    \/ WaitForPageLoad
    \/ ChooseCapture
    \/ FpGetWindowSize
    \/ FpDimensions
    \/ FpScroll1
    \/ FpResize
    \/ FpScroll2
    \/ FpScreenshot
    \/ FpCrop
    \/ FpSave
    \/ FpRestore
    \/ VpScroll
    \/ VpScreenshot
    \/ VpSave
    \/ VpReturn
    \/ Return
    \/ Finally

Spec == Init /\ [][Next]_vars

\* the run is one sequential thread: a step that can be taken is taken
FairSpec == Spec /\ WF_vars(Next)

-----------------------------------------------------------------------------
(* Vocabulary of the properties *)

\* the provider profiles the design names
ProviderProfiles == {"grafana", "openshift", "generic"}

\* failure phrases the design names
FailurePhrases == {"invalid", "incorrect", "unauthorized"}

\* post-login markers the design names
PostLoginMarkers == {"logout", "dashboard"}

\* credentials were typed or a submission was triggered
Submitting == Did("click_submit") \/ Did("send_enter")

\* a login routine has returned after a submission that went through, and the
\* session still shows the page that submission led to
AfterSubmission ==
    /\ pc = "cs_after_login"
    /\ status \in {"Submitted", "Success", "Failed", "Ambiguous"}

\* capture_full_page has returned to capture_screenshot
FullPageReturned == full_page /\ pc = "cs_return"

\* get_screenshot_as_png was requested and raised
ScreenshotFailed == Did("screenshot") /\ screenshot = NoImage /\ success = "False"

-----------------------------------------------------------------------------
(* C1: capture_full_page leaves the window at the size it had on entry, on
   every exit path (success, failed screenshot, failed save). *)
C1_WindowRestoredOnEveryExit ==
    FullPageReturned => window = entry_size

(* C2: once the session has been started, quit has been invoked on it by the
   time capture_screenshot returns, whatever the exit path; it is the last
   request made of the session. *)
C2_SessionClosedOnEveryExit ==
    (pc = "done" /\ driver /= None) =>
        /\ driver = "closed"
        /\ Count("quit") = 1
        /\ trace[Len(trace)].op = "quit"

\* the run ended through capture_screenshot's except clause, session started
C2_Witness ==
    /\ pc = "done"
    /\ driver = "closed"
    /\ Did("get_target")
    /\ ~Did("wait_for_page_load")
    /\ result = "False"

(* C3: the output path is written only after the image has been obtained from
   the session, and what a completed write leaves there is that image; when
   the screenshot request fails there is no write and the run reports
   failure. *)
C3_WriteOnlyAfterImage ==
    /\ Did("write") =>
        /\ Did("screenshot")
        /\ First("screenshot") < First("write")
        /\ screenshot /= NoImage
    /\ file.state = "complete" => file.data = Encoded(screenshot, output_path)
    /\ ScreenshotFailed =>
        /\ ~Did("write")
        /\ file = NoFile
        /\ pc = "done" => result = "False"

C3_Witness ==
    /\ pc = "done"
    /\ ScreenshotFailed
    /\ full_page

(* C4: with credentials supplied, a failed authentication (a routine that
   reports failure or an exception caught inside the dispatcher) does not end
   the run: the target URL is requested next, and once it has loaded a
   capture is attempted and its outcome alone is the run's result. *)
C4_LoginFailureFallsThrough ==
    /\ login_success = "False" => (pc = "cs_after_login" \/ Did("get_target"))
    /\ (login_success = "False" /\ pc = "done" /\ Did("wait_for_page_load")) =>
        /\ success /= None
        /\ result = success

\* an exception inside the dispatcher, then a capture that succeeds
C4_Witness ==
    /\ pc = "done"
    /\ login_success = "False"
    /\ status = "Error"
    /\ result = "True"
    /\ file.state = "complete"

(* C5: in an attempt where the username field or the password field is not
   located, nothing is typed, no submit control is clicked and no Enter key is
   sent, and the attempt ends as failed (FieldsNotFound). *)
C5_NoSubmissionWithoutFields ==
    /\ (Did("send_keys") \/ Submitting) =>
        (username_input /= None /\ password_input /= None)
    /\ status = "FieldsNotFound" =>
        /\ login_success = "False"
        /\ username_input = None \/ password_input = None
        /\ ~Did("send_keys") /\ ~Submitting
    /\ (login_success /= None /\ attempts /= {} /\
        (username_input = None \/ password_input = None)) =>
        status = "FieldsNotFound"

\* the username was located, the password was not
C5_Witness ==
    /\ status = "FieldsNotFound"
    /\ username_input /= None
    /\ password_input = None
    /\ pc = "cs_after_login"

(* C6, as stated: overall authentication failure after a failed attempt comes
   only once every provider profile has been attempted. *)
C6_FailureOnlyAfterEveryProfile ==
    (login_success = "False" /\ status \in {"FieldsNotFound", "Failed"}) =>
        attempts = ProviderProfiles

(* C6, amended: the dispatcher attempts at most one profile, the one its
   detection selected; when that attempt fails (fields not found, or judged
   Failed) the overall result is failure at once and no other profile is
   attempted. *)
C6_SingleProfileAttempted ==
    /\ Cardinality(attempts) <= 1
    /\ Count("find_username") <= 1
    /\ "openshift" \in attempts => provider = "openshift_login"
    /\ "generic" \in attempts => provider = "generic_login"
    /\ status \in {"FieldsNotFound", "Failed"} =>
        /\ login_success = "False"
        /\ Cardinality(attempts) = 1
        /\ pc \notin {"os_user", "os_pass", "gl_user", "gl_pass"}

C6_Witness ==
    /\ status = "Failed"
    /\ login_success = "False"
    /\ attempts = {"openshift"}
    /\ pc = "done"

(* C7: after a submission, a page that carries a failure phrase (in any case)
   makes the attempt Failed, whatever the URL and whatever success markers the
   page carries too. *)
C7_FailurePhraseForcesFailed ==
    (AfterSubmission /\ FailurePhrases \cap LowerSet(page_source) /= {}) =>
        login_success = "False"

(* C8: when detection finds Grafana markers, the Grafana profile's attempt is
   carried out: its field lookup takes place. *)
C8_GrafanaAttemptCarriedOut ==
    (provider = "grafana_login" /\ pc = "cs_after_login") =>
        ("grafana" \in attempts /\ Did("find_username"))

(* C9: the dispatcher always terminates, attempts each provider profile at
   most once, and after an attempt has ended in Success makes no further field
   lookup or submission. *)
C9_DispatcherTerminatesOneAttempt ==
    /\ (pc = "ad_get") ~> (pc = "cs_after_login")
    /\ [](\A p \in ProviderProfiles :
            Cardinality({i \in DOMAIN trace :
                trace[i].op = "find_username" /\ trace[i].a = p}) <= 1)
    /\ [][status = "Success" =>
            /\ Count("find_username")' = Count("find_username")
            /\ Count("find_password")' = Count("find_password")
            /\ Count("send_keys")' = Count("send_keys")
            /\ Count("click_submit")' = Count("click_submit")
            /\ Count("send_enter")' = Count("send_enter")
            /\ attempts' = attempts]_vars

\* an attempt ended in Success and the run went on to its end
C9_Witness ==
    /\ pc = "done"
    /\ status = "Success"
    /\ login_success = "True"
    /\ attempts = {"openshift"}

(* C10: after a submission, with no failure phrase on the page, a URL that has
   left the login path or a post-login marker on the page makes the attempt
   a success: the routine returns True, and openshift_login takes its Success
   branch whenever the URL no longer contains "login" or a marker is there. *)
C10_SuccessSignalsGiveSuccess ==
    (AfterSubmission /\ FailurePhrases \cap LowerSet(page_source) = {}) =>
        /\ (\/ current_url /= LoginUrl(BaseUrl(url))
            \/ PostLoginMarkers \cap LowerSet(page_source) /= {}) =>
                login_success = "True"
        /\ (/\ provider = "openshift_login"
            /\ \/ ~InUrl("login", LowerSeq(current_url))
               \/ PostLoginMarkers \cap LowerSet(page_source) /= {}) =>
                status = "Success"

\* still on the login path, a logout marker on the page, no failure phrase
C10_Witness ==
    /\ AfterSubmission
    /\ provider = "openshift_login"
    /\ current_url = LoginUrl(BaseUrl(url))
    /\ LowerSet(page_source) = {"logout"}
    /\ status = "Success"

-----------------------------------------------------------------------------
(* Vocabulary for the properties of the capture geometry *)

\* the size the dimension queries (or their fallback) gave capture_full_page
DimsKnown == Did("dimensions") \/ Did("dimensions_failed")

DimsEvent ==
    trace[CHOOSE i \in DOMAIN trace :
              trace[i].op \in {"dimensions", "dimensions_failed"}]

MeasuredWidth == DimsEvent.a

MeasuredHeight == DimsEvent.b

\* the smaller of two numbers
Min2(x, y) == IF x < y THEN x ELSE y

(* C11: after a submission, when neither a success signal nor a failure signal
   is found (openshift_login's verdict is Ambiguous), the attempt is reported
   as successful: the routine returns True, and the caller goes on to the
   target URL as after a Success. *)
C11_AmbiguousReportedAsSuccess ==
    /\ status = "Ambiguous" => login_success = "True"
    /\ (/\ AfterSubmission
        /\ provider = "openshift_login"
        /\ InUrl("login", LowerSeq(current_url))
        /\ ~InUrl("console", LowerSeq(current_url))
        /\ LowerSet(page_source) = {}) =>
            (status = "Ambiguous" /\ login_success = "True")
    /\ (status = "Ambiguous" /\ pc \notin {"cs_after_login"}) => Did("get_target")

\* an unclear verdict, and the run went on to a successful capture
C11_Witness ==
    /\ pc = "done"
    /\ status = "Ambiguous"
    /\ login_success = "True"
    /\ result = "True"

\* the login page carries a marker of a known provider, in its text or its URL
KnownProviderMarker ==
    \/ {"grafana", "openshift"} \cap LowerSet(page_source) /= {}
    \/ InUrl("grafana", LowerSeq(current_url))
    \/ InUrl("openshift", LowerSeq(current_url))

(* C12: the dispatcher's first request is the navigation to {baseUrl}/login;
   when the page found there shows no marker of a known provider, the generic
   profile is the one attempted and no provider-specific profile is. *)
C12_GenericWhenNoMarker ==
    /\ [](/\ pc = "ad_detect" =>
                (trace[Len(trace)].op = "get_login"
                 /\ current_url = LoginUrl(BaseUrl(url))
                 /\ Count("get_login") = 1
                 /\ attempts = {})
          /\ provider = "generic_login" =>
                (attempts \subseteq {"generic"}
                 /\ (login_success /= None => attempts = {"generic"})))
    /\ [][(pc = "ad_detect" /\ ~KnownProviderMarker) =>
            (provider' = "generic_login" /\ pc' = "gl_user")]_vars

\* no marker was found and the generic profile went through to a submission
C12_Witness ==
    /\ pc = "done"
    /\ provider = "generic_login"
    /\ attempts = {"generic"}
    /\ status = "Submitted"

\* requests the login dispatcher makes of the session
LoginOps == {"get_login", "click_oauth", "find_username", "find_password",
             "click_field", "clear", "send_keys", "click_submit", "send_enter"}

\* requests the capture routines make of the session
CaptureOps == {"get_window_size", "dimensions", "dimensions_failed", "scroll",
               "set_window_size", "screenshot"}

(* C13: with credentials supplied, the dispatcher has returned before the
   target URL is requested, and the target URL has been loaded before any
   dimension query or screenshot request; the session is at the target URL,
   never at the login page, when a screenshot is requested. *)
C13_LoginThenTargetThenCapture ==
    /\ (Truthy(username) /\ Truthy(password) /\ Did("get_target")) =>
        /\ login_success /= None
        /\ Did("get_login")
        /\ \A i, j \in DOMAIN trace :
               (trace[i].op \in LoginOps /\ trace[j].op = "get_target") => i < j
    /\ \A i \in DOMAIN trace :
           trace[i].op \in CaptureOps =>
               /\ \E j \in 1..(i - 1) : trace[j].op = "get_target"
               /\ current_url = url
    /\ pc \in {"fp_shot", "vp_shot"} => current_url = url

\* a login that succeeded, then the capture of the target
C13_Witness ==
    /\ pc = "done"
    /\ login_success = "True"
    /\ Did("send_keys")
    /\ Did("screenshot")
    /\ result = "True"

\* the credential that belongs in a field
Credential(field) == IF field = "username" THEN username ELSE password

\* every submission request comes after both fields were cleared and filled,
\* each with its own credential
FilledBeforeSubmission ==
    \A k \in DOMAIN trace :
        trace[k].op \in {"click_submit", "send_enter"} =>
            \A f \in {"username", "password"} :
                \E i, j \in 1..(k - 1) :
                    /\ i < j
                    /\ trace[i].op = "clear" /\ trace[i].a = f
                    /\ trace[j].op = "send_keys" /\ trace[j].a = f
                    /\ trace[j].b = Credential(f)

\* a click on the located control was requested and the Enter key after it
ClickThenEnter ==
    \E i, j \in DOMAIN trace :
        i < j /\ trace[i].op = "click_submit" /\ trace[j].op = "send_enter"

(* C14, as stated: both fields are cleared and filled before any submission;
   the submission is a click when a submit control is located and the Enter
   key only when none is; exactly one of the two happens per attempt. *)
C14_ExactlyOneSubmission ==
    Submitting =>
        /\ FilledBeforeSubmission
        /\ Count("click_submit") + Count("send_enter") = 1
        /\ Did("click_submit") <=> login_button /= None

(* C14, amended: both fields are cleared and filled before any submission;
   the submission is a click on the submit control when one is located, and
   the Enter key when none is located or, in generic_login, when the click on
   the located control raised; openshift_login makes exactly one of the two
   requests, generic_login makes the two only in that fallback, and an attempt
   that located both fields and met no exception submits. *)
C14_ClickElseEnter ==
    /\ Submitting =>
        /\ FilledBeforeSubmission
        /\ Count("click_submit") <= 1 /\ Count("send_enter") <= 1
        /\ Did("click_submit") <=> login_button /= None
        /\ Did("send_enter") =>
            \/ login_button = None
            \/ provider = "generic_login" /\ ClickThenEnter /\ faults > 0
        /\ provider = "openshift_login" =>
            Count("click_submit") + Count("send_enter") = 1
    /\ (/\ login_success /= None
        /\ username_input /= None /\ password_input /= None
        /\ status /= "Error") => Submitting

\* a submit control was located and clicked, and no Enter key was sent
C14_Witness ==
    /\ pc = "cs_after_login"
    /\ provider = "openshift_login"
    /\ login_button /= None
    /\ Did("click_submit")
    /\ ~Did("send_enter")
    /\ status = "Success"

(* C15: for a valid request (0 <= start < end, end at most the clamped page
   height) the rows captured are exactly the page range [start, end): the
   captured heights sum to end - start; a full-page request has no end of its
   own, so its range ends at the clamped page height and starts at 0 when no
   start height is given.  capture_full_page takes one frame, so the sum is the
   height of that frame, stated here for the runs in which no call raised. *)
C15_CapturedRangeTiled ==
    (/\ full_page
     /\ faults = 0
     /\ file.state = "complete"
     /\ DimsKnown
     /\ start_height < MeasuredHeight)
        => file.data.height = Min2(MeasuredHeight, max_height) - start_height

\* a full-page request whose start height is not below the measured page height
StartBeyondPage ==
    /\ full_page
    /\ DimsKnown
    /\ start_height > 0
    /\ start_height >= MeasuredHeight

(* C16, as claimed: a capture request whose start height is not below the page
   height fails: no frame is captured, no file is written, and the run reports
   failure. *)
C16_InvalidRangeFails ==
    (StartBeyondPage /\ pc = "done")
        => /\ result = "False"
           /\ ~Did("screenshot")
           /\ ~Did("write")

(* C16, amended: a full-page request whose start height is not below the
   measured page height is not refused: the start height is replaced by 0 and
   the whole page (up to the cap of 20000 rows) is captured; when no call
   raises, the run writes that frame and reports success. *)
C16_StartBeyondPageBecomesZero ==
    StartBeyondPage
        => /\ fp_start = 0
           /\ total_height = Min2(MeasuredHeight, max_height)
           /\ (pc = "done" /\ faults = 0)
                => /\ result = "True"
                   /\ file.state = "complete"
                   /\ file.data.height = Min2(MeasuredHeight, max_height)

\* start height 900 on a page measured 600 rows high: captured from 0, success
C16_Witness ==
    /\ StartBeyondPage
    /\ pc = "done"
    /\ start_height = 900
    /\ MeasuredHeight = 600
    /\ fp_start = 0
    /\ file.state = "complete"
    /\ file.data.height = 600
    /\ result = "True"

\* the steps of capture_full_page between its resize and its restore
BeforeRestore == {"fp_scroll2", "fp_shot", "fp_crop", "fp_save", "fp_restore"}

(* C17, as claimed: for every measured document size the page width used for
   the capture is at most 7680 and the page height used is at most 20000, and
   a measured value at or below its cap is used unchanged. *)
C17_MeasuredUsedUnchanged ==
    DimsKnown
        => /\ total_width <= max_width
           /\ total_height <= max_height
           /\ MeasuredWidth <= max_width => total_width = MeasuredWidth
           /\ MeasuredHeight <= max_height => total_height = MeasuredHeight

(* C17, amended: the page width used is at most 7680 and the page height used
   is at most 20000; a measured width at or below the cap is used unchanged;
   a measured height at or below the cap is used less the start height in
   effect (unchanged only when that start height is 0); the window is resized
   to the width and height used, the height plus the original window height
   when a start height is in effect. *)
C17_CapsApplied ==
    DimsKnown
        => /\ total_width <= max_width
           /\ total_height <= max_height
           /\ MeasuredWidth <= max_width => total_width = MeasuredWidth
           /\ MeasuredHeight <= max_height
                => total_height = MeasuredHeight - fp_start
           /\ \A i \in DOMAIN trace :
                (trace[i].op = "set_window_size" /\ pc \in BeforeRestore)
                    => /\ trace[i].a = total_width
                       /\ trace[i].b = total_height
                            + (IF fp_start > 0 THEN original_size.height ELSE 0)

\* a width over the cap is cut to 7680; a height of 1500 with start height 300
\* is used as 1200, and the window is asked to be 1200 + 600 rows high
C17_Witness ==
    /\ DimsKnown
    /\ MeasuredWidth = 7681
    /\ total_width = 7680
    /\ MeasuredHeight = 1500
    /\ fp_start = 300
    /\ total_height = 1200
    /\ pc \in BeforeRestore
    /\ \E i \in DOMAIN trace :
        trace[i].op = "set_window_size" /\ trace[i].b = 1800

\* the page rows [from, to) that capture_full_page sets out to capture
RangeEnd == fp_start + total_height

(* C18, as claimed: the clamped page height is the smaller of the measured
   height and 20000, not reduced by the start height, and the captured range
   never extends beyond page offset 20000. *)
C18_ClampedFromMeasuredAlone ==
    DimsKnown
        => /\ total_height = Min2(MeasuredHeight, max_height)
           /\ RangeEnd <= max_height

(* C18, amended: with a start height in effect (above 0 and below the measured
   height) the height clamped is the measured height less the start height:
   the height used is the smaller of that difference and 20000; otherwise it
   is the smaller of the measured height and 20000.  The cap bounds the number
   of rows captured, not the page offset reached: the range starts at the
   start height in effect and ends at most at the measured height, which may
   lie beyond page offset 20000. *)
C18_ClampedAfterStartTakenOff ==
    DimsKnown
        => /\ IF start_height > 0 /\ start_height < MeasuredHeight
              THEN /\ fp_start = start_height
                   /\ total_height = Min2(MeasuredHeight - start_height, max_height)
              ELSE /\ fp_start = 0
                   /\ total_height = Min2(MeasuredHeight, max_height)
           /\ RangeEnd <= MeasuredHeight
           /\ RangeEnd - fp_start <= max_height

\* a page measured 20500 rows high, start height 300: rows [300, 20300)
C18_Witness ==
    /\ DimsKnown
    /\ MeasuredHeight = 20500
    /\ fp_start = 300
    /\ total_height = max_height
    /\ RangeEnd > max_height
    /\ Did("screenshot")

(* C19: when the page-dimension queries fail, the capture is not aborted: the
   page width and height fall back to the window size read at entry, and the
   capture goes on to take a screenshot and write the output; with no other
   call raising, the run writes the file and reports success. *)
C19_DimensionFailureNotFatal ==
    Did("dimensions_failed")
        => /\ MeasuredWidth = original_size.width
           /\ MeasuredHeight = original_size.height
           /\ total_width = Min2(original_size.width, max_width)
           /\ total_height = Min2(original_size.height - fp_start, max_height)
           /\ faults = 1
                => /\ success # "False"
                   /\ pc = "done"
                        => /\ Did("screenshot")
                           /\ file.state = "complete"
                           /\ file.data.width = total_width
                           /\ result = "True"

\* the queries failed, the window size was used, the file was written
C19_Witness ==
    /\ Did("dimensions_failed")
    /\ pc = "done"
    /\ total_width = original_size.width
    /\ Did("screenshot")
    /\ file.state = "complete"
    /\ result = "True"

\* the frame written by a full-page capture with a start height in effect, in
\* a run where no call raised, before the window is restored: the raw frame
\* had the height of the resized window
StartFrameWritten ==
    /\ full_page
    /\ fp_start > 0
    /\ faults = 0
    /\ pc = "fp_restore"
    /\ file.state = "complete"

(* C20: when the page content to keep from a frame (total_height rows) is
   shorter than the viewport (the resized window), the frame is cropped to its
   top rows [0, cropPixels), cropPixels = frame height * kept height /
   viewport height, so the image written is shorter than the raw frame. *)
C20_FrameCroppedToKeptRows ==
    (StartFrameWritten /\ total_height < window.height)
        => /\ file.data.height = (window.height * total_height) \div window.height
           /\ file.data.height < window.height

(* C21: the final image's height is the sum of the kept heights of the frames
   captured, and its width is the first frame's width.  capture_full_page
   captures one frame, of which total_height rows of page content are to be
   kept, at the width total_width asked of the window; stated for the runs in
   which no call raised. *)
C21_FinalHeightIsKeptHeight ==
    (full_page /\ faults = 0 /\ file.state = "complete")
        => /\ Count("screenshot") = 1
           /\ file.data.width = total_width
           /\ file.data.height = total_height

\* a viewport-only capture without login that has written its file
ViewportOnlyWritten ==
    /\ ~full_page
    /\ start_height = 0
    /\ ~(Truthy(username) /\ Truthy(password))
    /\ file.state = "complete"

\* one frame requested, no scroll, no resize, no crop
OneUntouchedFrame ==
    /\ Count("screenshot") = 1
    /\ ~Did("scroll")
    /\ ~Did("set_window_size")
    /\ window = entry_size
    /\ screenshot.width = window.width
    /\ screenshot.height = window.height
    /\ screenshot.encoding = "png"

(* C22, as claimed: a viewport-only capture (full_page false, start height 0,
   no credentials) requests exactly one frame, does not scroll, resize or
   crop, and the bytes written to the output file are exactly the bytes of
   that frame. *)
C22_FrameWrittenVerbatim ==
    ViewportOnlyWritten
        => /\ OneUntouchedFrame
           /\ file.data = screenshot

(* C22, amended: such a capture requests exactly one frame, does not scroll,
   resize or crop; the bytes written are exactly the bytes of that frame when
   the output path ends in .png (in any letter case), and a JPEG re-encoding
   of that frame, of the same width and height, for every other path. *)
C22_FrameWrittenVerbatimIfPng ==
    ViewportOnlyWritten
        => /\ OneUntouchedFrame
           /\ IF Lower(output_path[Len(output_path)]) = "png"
              THEN file.data = screenshot
              ELSE /\ file.data.encoding = "jpeg"
                   /\ file.data.width = screenshot.width
                   /\ file.data.height = screenshot.height

\* screenshot.PNG holds the frame's own bytes
C22_Witness ==
    /\ ViewportOnlyWritten
    /\ pc = "done"
    /\ output_path = <<"screenshot", "PNG">>
    /\ Count("screenshot") = 1
    /\ file.data = screenshot
    /\ screenshot.encoding = "png"
    /\ result = "True"

(* C23: main ends with exit code 0 exactly when the capture succeeded and the
   output was written, and with exit code 1 on every failure, the failures
   being an invalid URL, a session that could not start and a capture failure:
   a run with a valid URL ends with exit code 1 only after capture_screenshot
   returned False, and otherwise reaches exit code 0. *)
C23_ExitCodeReflectsCapture ==
    pc = "exited"
        => /\ exit_code \in {0, 1}
           /\ exit_code = 0 <=> (result = "True" /\ file.state = "complete")
           /\ exit_code = 1 => (~validate_url(url) \/ result = "False")

\* the page did not reach the ready state within wait_for_page_load's ceiling
LoadTimedOut ==
    \E i \in DOMAIN trace :
        trace[i].op = "wait_for_page_load" /\ trace[i].a = "False"

(* C24: when the page does not reach the ready state within the load ceiling,
   the timeout is not fatal: wait_for_page_load returns normally and the run
   continues to the capture step (a capture routine is entered); with no call
   raising, the screenshot is taken, the file written and the run succeeds. *)
C24_LoadTimeoutNotFatal ==
    LoadTimedOut
        => /\ pc /= "cs_wait"
           /\ pc /= "cs_capture" => entry_size.width > 0
           /\ faults = 0 => result /= "False"
           /\ (faults = 0 /\ pc = "done")
                => /\ Did("screenshot")
                   /\ file.state = "complete"
                   /\ result = "True"

\* a run whose page load timed out and which went on to write its file
C24_Witness ==
    /\ LoadTimedOut
    /\ pc = "done"
    /\ Did("screenshot")
    /\ file.state = "complete"
    /\ result = "True"

\* setup_driver returned None: the session could not be started
SessionUnavailable ==
    /\ pc \notin {"main", "exited", "cs_setup"}
    /\ driver = None

(* C25: when the browser session cannot be started, the whole run is aborted
   as a failure: capture_screenshot returns False, and no login is attempted,
   no URL is navigated to, no screenshot is requested and no output file is
   written (no request at all is made of a session or of the file). *)
C25_NoSessionAbortsRun ==
    SessionUnavailable
        => /\ pc \in {"cs_finally", "done"}
           /\ result = "False"
           /\ trace = <<>>
           /\ attempts = {}
           /\ provider = None
           /\ current_url = <<>>
           /\ screenshot = NoImage
           /\ file = NoFile

\* the run is over, without a session and without any request made
C25_Witness ==
    /\ SessionUnavailable
    /\ pc = "done"
    /\ Truthy(username)
    /\ Truthy(password)
    /\ result = "False"
    /\ trace = <<>>
    /\ file = NoFile

(* C26: every run of capture_screenshot requests at most one screenshot from
   the session and writes the output file at most once, whatever the page
   height, window height, start height and capture mode; a run that returns
   success has done each exactly once. *)
C26_OneScreenshotOneWrite ==
    /\ Count("screenshot") <= 1
    /\ Count("write") <= 1
    /\ Did("write") => Did("screenshot")
    /\ (success = "True" \/ result = "True")
        => /\ Count("screenshot") = 1
           /\ Count("write") = 1

\* a full-page run over a page 20500 rows high and a viewport run, each
\* returned True after one screenshot and one write
C26_Witness ==
    /\ pc = "done"
    /\ result = "True"
    /\ Count("screenshot") = 1
    /\ Count("write") = 1
    /\ \/ full_page /\ DimsKnown /\ MeasuredHeight = 20500 /\ start_height = 300
       \/ ~full_page /\ start_height = 900

(* C27: in capture_full_page, every window-size request made before the
   screenshot asks for a width of at most 7680 and a height of at most 20000
   plus the original window height; the original window height is added only
   when the effective start height is above 0, and with an effective start
   height of 0 the height asked for is at most 20000. *)
C27_ResizeRequestBounded ==
    \A i \in DOMAIN trace :
        (trace[i].op = "set_window_size" /\ pc \in BeforeRestore)
            => /\ trace[i].a <= max_width
               /\ trace[i].b <= max_height + original_size.height
               /\ IF fp_start > 0
                  THEN trace[i].b = total_height + original_size.height
                  ELSE trace[i].b = total_height /\ trace[i].b <= max_height

\* start height 300 on a page 20500 rows high: 20000 + 600 rows asked for
C27_Witness ==
    /\ pc \in BeforeRestore
    /\ Did("screenshot")
    /\ fp_start = 300
    /\ \E i \in DOMAIN trace :
        /\ trace[i].op = "set_window_size"
        /\ trace[i].a = max_width
        /\ trace[i].b = max_height + original_size.height

\* need_login of capture_screenshot, as the claims word it
BothCredentials == Truthy(username) /\ Truthy(password)

(* C28: the authentication dispatcher is entered only when both a username and
   a password are supplied and non-empty; when either is missing or empty,
   there is no navigation to the login path, no field lookup and no
   submission, and the first request of the session is the load of the target
   URL. *)
C28_DispatcherOnlyWithBothCredentials ==
    /\ (Did("get_login") \/ provider /= None \/ login_success /= None)
        => BothCredentials
    /\ ~BothCredentials
        => /\ \A i \in DOMAIN trace : trace[i].op \notin LoginOps
           /\ attempts = {}
           /\ elemVars = <<None, None, None>>
           /\ status = "Idle"
           /\ trace /= <<>> => trace[1].op = "get_target"
           /\ pc \notin {"main", "exited", "cs_setup", "cs_need_login", "cs_get_url",
                         "cs_finally", "done"}
                => Did("get_target")

\* a username with an empty password: the target was loaded directly
C28_Witness ==
    /\ username = "admin"
    /\ password = ""
    /\ pc = "done"
    /\ Did("get_target")
    /\ \A i \in DOMAIN trace : trace[i].op \notin LoginOps
    /\ current_url = url
    /\ result = "True"

\* a Grafana marker in the text or the URL of the page the session is at
GrafanaMarker ==
    \/ "grafana" \in LowerSet(page_source)
    \/ InUrl("grafana", LowerSeq(current_url))

\* an OpenShift marker in the text or the URL of the page the session is at
OpenShiftMarker ==
    \/ "openshift" \in LowerSet(page_source)
    \/ {"red", "hat"} \subseteq LowerSet(page_source)
    \/ InUrl("openshift", LowerSeq(current_url))

(* C29: provider detection has a fixed precedence: the Grafana handling is
   selected whenever a Grafana marker is present, OpenShift markers or not;
   the OpenShift handling is selected only when no Grafana marker is present
   and an OpenShift marker is; the generic handling is selected only when
   neither kind of marker is present. *)
C29_DetectionPrecedence ==
    [][pc = "ad_detect"
        => /\ GrafanaMarker => provider' = "grafana_login"
           /\ provider' = "openshift_login" <=> (~GrafanaMarker /\ OpenShiftMarker)
           /\ provider' = "generic_login" <=> (~GrafanaMarker /\ ~OpenShiftMarker)]_vars

\* a page with markers of both kinds was handed to the Grafana handling, and no
\* other profile was attempted
C29_Witness ==
    /\ provider = "grafana_login"
    /\ GrafanaMarker
    /\ OpenShiftMarker
    /\ "OpenShift" \in page_source
    /\ attempts = {}
    /\ ~Did("find_username")

====
